---- MODULE Spec2Model ----
(***************************************************************************)
(* Model of finance-bot/web_finbot.py: the file-backed chat store          *)
(* (CHAT_DIR/<safe_filename(chat_id)>.json, CHAT_DIR/pinned_chats.json),   *)
(* the browser session cookie, and the three route handlers home           *)
(* (GET/POST /), pin_chat and delete_chat.                                 *)
(*                                                                         *)
(* Strings that the code inspects character by character (chat ids and     *)
(* file names) are sequences of one-character strings; message texts are   *)
(* opaque strings.  A JSON array is a sequence; a JSON string element is   *)
(* the record [str |-> s], a JSON object is a record with its keys.        *)
(* Not modelled: CACHE["data"], MEDIA_DIR contents, the HTML template.     *)
(***************************************************************************)
EXTENDS Integers, Sequences, FiniteSets, TLC

VARIABLES files, session, issued, posts, last, thr, loaded

vars == <<files, session, issued, posts, last, thr, loaded>>

---------------------------------------------------------------------------
(* Bounds *)

\* number of uuid4() chat ids the model lets the server issue
MaxUuid == 1
\* number of POST / requests with a non-empty query
MaxPosts == 2

---------------------------------------------------------------------------
(* Characters, chat ids, file names *)

Letters == {"a","b","c","d","e","f","g","h","i","j","k","l","m","n","o","p",
            "q","r","s","t","u","v","w","x","y","z",
            "A","B","C","D","E","F","G","H","I","J","K","L","M","N","O","P",
            "Q","R","S","T","U","V","W","X","Y","Z"}
Digits == {"0","1","2","3","4","5","6","7","8","9"}

\* the character class [a-zA-Z0-9_.-] of safe_filename
SafeChars == Letters \cup Digits \cup {"_", ".", "-"}

\* re.sub(r'[^a-zA-Z0-9_.-]', '_', name or "")
safe_filename(name) ==
    [i \in DOMAIN name |-> IF name[i] \in SafeChars THEN name[i] ELSE "_"]

\* None / "" : every falsy chat id
NoId == <<>>

\* basename of PINNED_CHATS_FILE without ".json"
PinnedName == <<"p","i","n","n","e","d","_","c","h","a","t","s">>

\* str(uuid.uuid4()), abbreviated to two hex characters; the n-th call
\* returns a value no earlier call returned
HexDigit == <<"1","2","3","4","5","6","7","8","9">>
Uuid(n) == <<"f", HexDigit[n]>>

\* chat ids a client puts in a URL besides the uuids it was shown:
\* "c " and "c_" share the file c_.json.  The id "pinned_chats", whose file
\* is the pinned file itself, is not among the requests of this model.
UserIds == { <<"c"," ">>, <<"c","_">> }

KnownIds == UserIds \cup { Uuid(n) : n \in 1..issued }

---------------------------------------------------------------------------
(* Files of CHAT_DIR: basename (without .json) -> [st, data]               *)
(* st = "ok": data is the parsed JSON array; "unparsable": not JSON;       *)
(* "unreadable": open() raises an OSError other than FileNotFoundError or  *)
(* the bytes are not UTF-8.  A missing file is outside DOMAIN files.       *)

OkFile(data) == [st |-> "ok", data |-> data]

Exists(fs, name) == name \in DOMAIN fs

WriteFile(fs, name, data) ==
    [n \in DOMAIN fs \cup {name} |-> IF n = name THEN OkFile(data) ELSE fs[n]]

RemoveFile(fs, name) == [n \in DOMAIN fs \ {name} |-> fs[n]]

\* save_chat_history(chat_id, history)
save_chat_history(fs, chat_id, history) ==
    WriteFile(fs, safe_filename(chat_id), history)

\* load_chat_history(chat_id): every exception gives []
load_chat_history(fs, chat_id) ==
    LET name == safe_filename(chat_id)
    IN  IF Exists(fs, name) /\ fs[name].st = "ok" THEN fs[name].data ELSE <<>>

\* load_pinned_chats(): [raised, val]; only a missing file and a
\* json.JSONDecodeError give []
load_pinned_chats(fs) ==
    IF ~Exists(fs, PinnedName) THEN [raised |-> FALSE, val |-> <<>>]
    ELSE IF fs[PinnedName].st = "ok"
         THEN [raised |-> FALSE, val |-> fs[PinnedName].data]
    ELSE IF fs[PinnedName].st = "unparsable"
         THEN [raised |-> FALSE, val |-> <<>>]
    ELSE [raised |-> TRUE, val |-> <<>>]

\* save_pinned_chats(pinned_ids)
save_pinned_chats(fs, pinned_ids) == WriteFile(fs, PinnedName, pinned_ids)

---------------------------------------------------------------------------
(* Python list operations on JSON arrays *)

JStr(id) == [str |-> id]

\* a membership test that looks at the head only
InHead(x, lst) == lst # <<>> /\ lst[1] = x

\* x in lst
In(x, lst) == \E i \in DOMAIN lst : lst[i] = x

\* lst.pop(0) in place of lst.remove(x)
ListPopFront(lst, x) == Tail(lst)

\* lst.remove(x): drops the first occurrence
ListRemove(lst, x) ==
    LET k == CHOOSE i \in DOMAIN lst :
                 lst[i] = x /\ \A j \in 1..(i-1) : lst[j] # x
    IN  SubSeq(lst, 1, k-1) \o SubSeq(lst, k+1, Len(lst))

\* lst.append(x) in place of lst.insert(0, x)
ListAppend(lst, x) == lst \o <<x>>

\* lst.insert(0, x)
ListInsertFront(lst, x) == <<x>> \o lst

---------------------------------------------------------------------------
(* Requests.  last records the request served last: its route and inputs, *)
(* the branches the handler took (existed: os.path.exists(path); pinned:   *)
(* chat_id in pinned_ids; io: what raised in the try block; created: calls *)
(* of uuid4; toolCalls: calls of a tool function), the response status and *)
(* history, the chat_history handed to render_template_string (the chat_id *)
(* handed to it is session["chat_id"]).                                    *)

NoReq == [op |-> "none", id |-> NoId, method |-> "-", q |-> "", qid |-> NoId,
          new |-> FALSE, plan |-> "-", io |-> "ok", toolCalls |-> 0,
          existed |-> FALSE, pinned |-> FALSE, created |-> 0, status |-> 0,
          history |-> <<>>]

\* two requests in flight (SpecConc): position and locals of each
Threads == {1, 2}
IdleThread == [pc |-> "idle", chat_id |-> NoId, hist |-> <<>>, q |-> "",
               saved |-> FALSE]
Idle == [t \in Threads |-> IdleThread]

Init ==
    /\ files = << >>
    /\ session = NoId
    /\ issued = 0
    /\ posts = 0
    /\ last = NoReq
    /\ thr = Idle
    /\ loaded = [raised |-> FALSE, val |-> <<>>]

\* pin_chat that only ever pins: an id already in the list is left where it is
pin_files_keep(fs, chat_id) ==
    LET lp == load_pinned_chats(fs)
        pinned_ids == IF In(JStr(chat_id), lp.val)
                      THEN lp.val
                      ELSE ListInsertFront(lp.val, JStr(chat_id))
    IN  IF lp.raised THEN fs ELSE save_pinned_chats(fs, pinned_ids)

\* the files pin_chat(chat_id) leaves, lines 686-691
pin_files(fs, chat_id) ==
    LET lp == load_pinned_chats(fs)
        pinned_ids == IF In(JStr(chat_id), lp.val)
                      THEN ListRemove(lp.val, JStr(chat_id))
                      ELSE ListInsertFront(lp.val, JStr(chat_id))
    IN  IF lp.raised THEN fs ELSE save_pinned_chats(fs, pinned_ids)

\* POST /pin_chat/<chat_id>
pin_chat(chat_id) ==
    LET lp == load_pinned_chats(files)
    IN  /\ files' = pin_files(files, chat_id)
        /\ last' = [NoReq EXCEPT !.op = "pin", !.id = chat_id,
                                 !.pinned = In(JStr(chat_id), lp.val),
                                 !.status = IF lp.raised THEN 500 ELSE 302]
        /\ UNCHANGED <<session, issued, posts, thr, loaded>>

\* delete_chat with the pin removal nested under "if os.path.exists(path)"
delete_chat_nested(chat_id) ==
    LET name == safe_filename(chat_id)
        lp == load_pinned_chats(files)
        hit == Exists(files, name) /\ ~lp.raised /\ In(JStr(chat_id), lp.val)
        fs1 == IF Exists(files, name) THEN RemoveFile(files, name) ELSE files
    IN  /\ files' = IF hit
                    THEN save_pinned_chats(fs1, ListRemove(lp.val, JStr(chat_id)))
                    ELSE fs1
        /\ session' = IF session = chat_id THEN NoId ELSE session
        /\ last' = [NoReq EXCEPT !.op = "delete", !.id = chat_id,
                                 !.existed = Exists(files, name),
                                 !.pinned = In(JStr(chat_id), lp.val),
                                 !.status = 302]
        /\ UNCHANGED <<issued, posts, thr, loaded>>

\* POST /delete_chat/<chat_id>
delete_chat(chat_id) ==
    LET name == safe_filename(chat_id)
        fs1 == IF Exists(files, name) THEN RemoveFile(files, name) ELSE files
        lp == load_pinned_chats(fs1)
        fs2 == IF ~lp.raised /\ In(JStr(chat_id), lp.val)
               THEN save_pinned_chats(fs1, ListRemove(lp.val, JStr(chat_id)))
               ELSE fs1
    IN  /\ files' = fs2
        /\ session' = IF ~lp.raised /\ session = chat_id THEN NoId ELSE session
        /\ last' = [NoReq EXCEPT !.op = "delete", !.id = chat_id,
                                 !.existed = Exists(files, name),
                                 !.pinned = In(JStr(chat_id), lp.val),
                                 !.status = IF lp.raised THEN 500 ELSE 302]
        /\ UNCHANGED <<issued, posts, thr, loaded>>

---------------------------------------------------------------------------
(* Texts *)

\* request.form["user_query"] values; Strip is str.strip()
Queries == {"", " ", "q1", "q2"}
Strip(s) == IF s = " " THEN "" ELSE s
\* the non-empty queries of sequential requests
PostQueries == {"q1"}

\* what get_tool_call and the selected tool do for a query
AllPlans == {"plan_raises", "greeting", "tool_ok", "tool_png", "tool_raises",
             "unknown"}
\* the outcomes the requests of the model draw from
Plans == {"greeting", "tool_png", "tool_raises"}

\* the response string chatbot_response builds before rendering it
PlanError == "**Error planning tool call:** bad <input>"
Greeting == "Hi! How can I help?"
ToolResult == "Total: **42**"
ToolChart == "Chart saved as *spending.png*"
ToolError == "An error occurred while running the tool: bad <input>"
Unknown == "I'm not sure how to do that. Please try rephrasing."

\* markdown_to_html on the response strings above: escape(), then ** to <b>,
\* * to <i>
markdown_to_html(text) ==
    CASE text = "" -> ""
      [] text = PlanError -> "<b>Error planning tool call:</b> bad &lt;input&gt;"
      [] text = Greeting -> "Hi! How can I help?"
      [] text = ToolResult -> "Total: <b>42</b>"
      [] text = ToolChart -> "Chart saved as <i>spending.png</i>"
      [] text = ToolError ->
             "An error occurred while running the tool: bad &lt;input&gt;"
      [] text = Unknown ->
             "I&#39;m not sure how to do that. Please try rephrasing."

\* extract_image_filename: the first [A-Za-z0-9_-]+\.png after tag removal
extract_image_filename(html) ==
    IF html = "Chart saved as <i>spending.png</i>" THEN "spending.png"
    ELSE "None"

\* chatbot_response calling the tool a second time after it raised
chatbot_response_retry(plan) ==
    IF plan = "tool_raises"
    THEN [text |-> markdown_to_html(ToolError), calls |-> 2]
    ELSE [text |-> markdown_to_html(IF plan = "tool_png" THEN ToolChart
                                    ELSE Greeting),
          calls |-> IF plan = "tool_png" THEN 1 ELSE 0]

\* chatbot_response(user_query, current_data): [text, calls], calls being
\* the number of times a function of the tool belt was invoked
chatbot_response(plan) ==
    IF plan = "plan_raises"
    THEN [text |-> markdown_to_html(PlanError), calls |-> 0]
    ELSE IF plan = "greeting"
    THEN [text |-> markdown_to_html(Greeting), calls |-> 0]
    ELSE IF plan \in {"tool_ok", "tool_png", "tool_raises"}
    THEN [text |-> markdown_to_html(
                      IF plan = "tool_ok" THEN ToolResult
                      ELSE IF plan = "tool_png" THEN ToolChart
                      ELSE ToolError),
          calls |-> 1]
    ELSE [text |-> markdown_to_html(Unknown), calls |-> 0]

---------------------------------------------------------------------------
(* Messages *)

Null == [null |-> TRUE]
\* f"media/{new_name}", new_name = chart_<8 hex digits>.png
MediaPath == [dir |-> "media", name |-> "chart.png"]

UserMsg(q) == [role |-> "user", text |-> q]
BotMsg(text, image) == [role |-> "bot", text |-> text, image |-> image]
Sorry == BotMsg("Sorry, I encountered an error.", Null)

\* ways the try block of home can raise after chatbot_response returned
IoOutcomes == {"ok", "rename_raises", "save_raises"}

\* the exchange appended to a fresh list instead of the loaded history
post_exchange_fresh(fs, chat_id, hist, q, plan, src_exists, io) ==
    LET bot == chatbot_response(plan)
        h2 == <<UserMsg(q), BotMsg(bot.text, Null)>>
    IN  IF io # "ok"
        THEN [fs |-> fs, hist |-> <<UserMsg(q), Sorry>>, calls |-> bot.calls]
        ELSE [fs |-> save_chat_history(fs, chat_id, h2), hist |-> h2,
              calls |-> bot.calls]

\* home, lines 712-739: the body of "if user_query:"; hist is the loaded
\* history.  Result: the files, the handler's chat_history, tool calls.
post_exchange(fs, chat_id, hist, q, plan, src_exists, io) ==
    LET h1 == Append(hist, UserMsg(q))
        bot == chatbot_response(plan)
        image_filename == extract_image_filename(bot.text)
        moves == image_filename # "None" /\ src_exists
        image_path == IF moves THEN MediaPath ELSE Null
        h2 == Append(h1, BotMsg(bot.text, image_path))
    IN  IF (moves /\ io = "rename_raises") \/ io = "save_raises"
        THEN [fs |-> fs, hist |-> Append(h1, Sorry), calls |-> bot.calls]
        ELSE [fs |-> save_chat_history(fs, chat_id, h2), hist |-> h2,
              calls |-> bot.calls]

\* get_or_create_chat writing an empty history for an id that has no file
get_or_create_chat_touch(fs, chat_id, new, n) ==
    IF new \/ chat_id = NoId
    THEN [fs |-> save_chat_history(fs, Uuid(n + 1), <<>>),
          chat_id |-> Uuid(n + 1), hist |-> <<>>, n |-> n + 1]
    ELSE [fs |-> IF Exists(fs, safe_filename(chat_id)) THEN fs
                 ELSE save_chat_history(fs, chat_id, <<>>),
          chat_id |-> chat_id,
          hist |-> load_chat_history(fs, chat_id), n |-> n]

\* get_or_create_chat(chat_id, new) with n uuids issued so far:
\* [fs, chat_id, hist, n]
get_or_create_chat(fs, chat_id, new, n) ==
    IF new \/ chat_id = NoId
    THEN [fs |-> save_chat_history(fs, Uuid(n + 1), <<>>),
          chat_id |-> Uuid(n + 1), hist |-> <<>>, n |-> n + 1]
    ELSE [fs |-> fs, chat_id |-> chat_id,
          hist |-> load_chat_history(fs, chat_id), n |-> n]

\* list_chat_sessions() raises TypeError at set(load_pinned_chats()) when an
\* element of the pinned array is a JSON object (unhashable dict)
Hashable(v) == "str" \in DOMAIN v
render_raises(fs) ==
    LET lp == load_pinned_chats(fs)
    IN  lp.raised \/ \E i \in DOMAIN lp.val : ~Hashable(lp.val[i])

\* GET / and POST /
home(method, user_query, qid, new_chat, plan, src_exists, io) ==
    LET q == Strip(user_query)
        posting == method = "POST" /\ q # ""
    IN
    \* POST: chat_id = session.get("chat_id") or a new chat
    \E c1 \in { IF method = "POST"
                THEN get_or_create_chat(files, session, FALSE, issued)
                ELSE [fs |-> files, chat_id |-> session, hist |-> <<>>,
                      n |-> issued] } :
    \E x \in { IF posting
               THEN post_exchange(c1.fs, c1.chat_id,
                                  load_chat_history(c1.fs, c1.chat_id),
                                  q, plan, src_exists, io)
               ELSE [fs |-> c1.fs, hist |-> <<>>, calls |-> 0] } :
    \* all methods: the chat to render
    \E c2 \in { IF new_chat
                THEN get_or_create_chat(x.fs, NoId, TRUE, c1.n)
                ELSE get_or_create_chat(x.fs,
                        IF qid # NoId THEN qid ELSE c1.chat_id, FALSE, c1.n) } :
        /\ c2.n <= MaxUuid
        /\ posting => posts < MaxPosts
        /\ files' = c2.fs
        /\ session' = c2.chat_id
        /\ issued' = c2.n
        /\ posts' = IF posting THEN posts + 1 ELSE posts
        /\ last' = [op |-> "home", id |-> NoId, method |-> method, q |-> q,
                    qid |-> qid, new |-> new_chat,
                    plan |-> IF posting THEN plan ELSE "-",
                    io |-> IF posting /\ x.fs = c1.fs THEN io ELSE "ok",
                    toolCalls |-> x.calls, existed |-> FALSE,
                    pinned |-> FALSE, created |-> c2.n - issued,
                    status |-> IF render_raises(c2.fs) THEN 500 ELSE 200,
                    history |-> IF render_raises(c2.fs) THEN <<>>
                                ELSE c2.hist]
        /\ UNCHANGED <<thr, loaded>>

\* inputs of home; those the path taken never reads are fixed to one value
GetInputs == [method : {"GET"}, user_query : {""}, plan : {"greeting"},
              src_exists : {FALSE}, io : {"ok"}]
EmptyPostInputs == [method : {"POST"}, user_query : {"", " "},
                    plan : {"greeting"}, src_exists : {FALSE}, io : {"ok"}]
PostInputs ==
    { i \in [method : {"POST"}, user_query : PostQueries, plan : Plans,
             src_exists : BOOLEAN, io : IoOutcomes] :
        /\ i.src_exists => i.plan = "tool_png"
        /\ i.io = "rename_raises" => i.src_exists }

Next ==
    \/ \E id \in KnownIds : pin_chat(id)
    \/ \E id \in KnownIds : delete_chat(id)
    \/ \E i \in GetInputs \cup EmptyPostInputs \cup PostInputs,
          qid \in KnownIds \cup {NoId}, new_chat \in BOOLEAN :
            /\ new_chat => qid = NoId
            /\ home(i.method, i.user_query, qid, new_chat, i.plan,
                 i.src_exists, i.io)

Spec == Init /\ [][Next]_vars

---------------------------------------------------------------------------
(* Two overlapping POST / requests of one browser.  home takes no lock:    *)
(* post_begin is lines 709-711 (session chat, load_chat_history),          *)
(* post_finish lines 713-760 (append, chatbot_response, save, render).     *)

\* the query each in-flight request posts
ThreadQuery == <<"q1", "q2">>

post_begin(t) ==
    LET c1 == get_or_create_chat(files, session, FALSE, issued)
    IN  /\ thr[t].pc = "idle"
        /\ c1.n <= MaxUuid
        /\ files' = c1.fs
        /\ issued' = c1.n
        /\ thr' = [thr EXCEPT ![t] =
                     [pc |-> "loaded", chat_id |-> c1.chat_id,
                      hist |-> load_chat_history(c1.fs, c1.chat_id),
                      q |-> ThreadQuery[t], saved |-> FALSE]]
        /\ UNCHANGED <<session, posts, last, loaded>>

\* post_finish loading the history again just before it appends
post_finish_reload(t, plan, io) ==
    LET x == post_exchange(files, thr[t].chat_id,
                           load_chat_history(files, thr[t].chat_id), thr[t].q,
                           plan, FALSE, io)
    IN  /\ thr[t].pc = "loaded"
        /\ files' = x.fs
        /\ session' = thr[t].chat_id
        /\ thr' = [thr EXCEPT ![t].pc = "done", ![t].saved = (io = "ok")]
        /\ last' = [NoReq EXCEPT !.op = "home", !.method = "POST",
                                 !.q = thr[t].q, !.plan = plan, !.io = io,
                                 !.toolCalls = x.calls, !.status = 200]
        /\ UNCHANGED <<issued, posts, loaded>>

post_finish(t, plan, io) ==
    LET x == post_exchange(files, thr[t].chat_id, thr[t].hist, thr[t].q,
                           plan, FALSE, io)
        c2 == get_or_create_chat(x.fs, thr[t].chat_id, FALSE, issued)
    IN  /\ thr[t].pc = "loaded"
        /\ files' = c2.fs
        /\ session' = c2.chat_id
        /\ thr' = [thr EXCEPT ![t].pc = "done", ![t].saved = (io = "ok")]
        /\ last' = [NoReq EXCEPT !.op = "home", !.method = "POST",
                                 !.q = thr[t].q, !.plan = plan, !.io = io,
                                 !.toolCalls = x.calls,
                                 !.status = IF render_raises(c2.fs)
                                            THEN 500 ELSE 200,
                                 !.history = IF render_raises(c2.fs)
                                             THEN <<>> ELSE c2.hist]
        /\ UNCHANGED <<issued, posts, loaded>>

NextConc ==
    \/ \E i \in GetInputs, qid \in KnownIds \cup {NoId} :
          home(i.method, i.user_query, qid, FALSE, i.plan, i.src_exists, i.io)
    \/ \E t \in Threads : post_begin(t)
    \/ \E t \in Threads, plan \in Plans, io \in {"ok", "save_raises"} :
          post_finish(t, plan, io)

SpecConc == Init /\ [][NextConc]_vars

---------------------------------------------------------------------------
(* The loaders on files the program did not write: any mix of missing,     *)
(* well-formed, unparsable and unreadable files.                           *)

FileContents(datas) ==
    { OkFile(d) : d \in datas } \cup
    { [st |-> "unparsable", data |-> <<>>], [st |-> "unreadable", data |-> <<>>] }

PinnedDatas == { <<>>, <<JStr(<<"c","_">>)>>,
                 <<JStr(<<"c"," ">>), JStr(<<"c","_">>)>> }
HistoryDatas == { <<>>, <<UserMsg("q1"), BotMsg(markdown_to_html(Greeting), Null)>> }

LoadFileSystems ==
    UNION { [ names -> FileContents(PinnedDatas \cup HistoryDatas) ] :
              names \in SUBSET { PinnedName, <<"c","_">> } }

InitLoad ==
    /\ files \in { fs \in LoadFileSystems :
                     /\ PinnedName \in DOMAIN fs =>
                           fs[PinnedName].data \in PinnedDatas
                     /\ <<"c","_">> \in DOMAIN fs =>
                           fs[<<"c","_">>].data \in HistoryDatas }
    /\ session = NoId
    /\ issued = 0
    /\ posts = 0
    /\ last = NoReq
    /\ thr = Idle
    /\ loaded = [raised |-> FALSE, val |-> <<>>]

\* a call of load_pinned_chats()
load_pinned_call ==
    /\ loaded' = load_pinned_chats(files)
    /\ last' = [NoReq EXCEPT !.op = "load_pinned"]
    /\ UNCHANGED <<files, session, issued, posts, thr>>

\* a call of load_chat_history(chat_id)
load_history_call(chat_id) ==
    /\ loaded' = [raised |-> FALSE, val |-> load_chat_history(files, chat_id)]
    /\ last' = [NoReq EXCEPT !.op = "load_history", !.id = chat_id]
    /\ UNCHANGED <<files, session, issued, posts, thr>>

NextLoad ==
    \/ load_pinned_call
    \/ \E id \in UserIds : load_history_call(id)
    \/ \E id \in UserIds : pin_chat(id)

SpecLoad == InitLoad /\ [][NextLoad]_vars

---------------------------------------------------------------------------
(* Observations *)

\* the array persisted in pinned_chats.json ([] when there is no file)
PinnedList(fs) == IF Exists(fs, PinnedName) THEN fs[PinnedName].data ELSE <<>>

\* the session files, as list_chat_sessions tells them from the pinned file
SessionFiles(fs) == DOMAIN fs \ {PinnedName}

\* lst without the entries equal to x, the others in order
Without(lst, x) == SelectSeq(lst, LAMBDA e : e # x)

NoDuplicates(lst) ==
    \A i, j \in DOMAIN lst : lst[i] = lst[j] => i = j

IsPrefix(a, b) == Len(a) <= Len(b) /\ SubSeq(b, 1, Len(a)) = a

---------------------------------------------------------------------------
(* Pinned list *)

\* C1: pin_chat(id) on an id that is in the pinned list unpins it: the
\* persisted list afterwards is the list before without id, every other id
\* in the same relative order.
C1_PinPinnedUnpins ==
    [][ (last'.op = "pin" /\ In(JStr(last'.id), PinnedList(files)))
          => /\ ~In(JStr(last'.id), PinnedList(files'))
             /\ PinnedList(files') = Without(PinnedList(files), JStr(last'.id))
      ]_vars

\* an unpin that left two other ids pinned
C1_Witness ==
    /\ last.op = "pin" /\ last.pinned
    /\ Len(PinnedList(files)) = 2

\* C2: pin_chat(id) on an id that is not in the pinned list inserts it at the
\* front: the persisted list afterwards is [id] followed by the list before.
C2_PinUnpinnedInsertsFront ==
    [][ (last'.op = "pin" /\ ~In(JStr(last'.id), PinnedList(files)))
          => PinnedList(files') = <<JStr(last'.id)>> \o PinnedList(files)
      ]_vars

\* a pin in front of two ids pinned before
C2_Witness ==
    /\ last.op = "pin" /\ ~last.pinned
    /\ Len(PinnedList(files)) = 3
    /\ PinnedList(files)[1] = JStr(last.id)

\* C3: starting from the empty pinned list, no id occurs more than once in
\* the persisted pinned list after any sequence of pin_chat, delete_chat and
\* home requests.
C3_PinnedIsSet == NoDuplicates(PinnedList(files))

\* two ids pinned after an unpin, a delete and a posted message
C3_Witness ==
    /\ Len(PinnedList(files)) = 2
    /\ last.op = "delete" /\ last.pinned
    /\ posts > 0

\* C4: after delete_chat(id) returns, no session file for id exists and id is
\* not in the persisted pinned list, whether or not a session file existed.
C4_DeleteRemovesFileAndPin ==
    (last.op = "delete" /\ last.status = 302)
      => /\ ~Exists(files, safe_filename(last.id))
         /\ ~In(JStr(last.id), PinnedList(files))

\* a delete of an id that was pinned and had no session file
C4_Witness ==
    /\ last.op = "delete" /\ last.status = 302
    /\ last.pinned /\ ~last.existed

---------------------------------------------------------------------------
(* Session files *)

C6_MessagesHaveThreeFields ==
    \A name \in SessionFiles(files) :
      \A i \in DOMAIN files[name].data :
        LET m == files[name].data[i]
        IN  /\ DOMAIN m = {"role", "text", "image"}
            /\ m.role \in {"user", "bot"}
            /\ (m.image = Null \/ m.image.dir = "media")

\* the chat id the POST branch of home works on
PostChat == IF session # NoId THEN session ELSE Uuid(issued + 1)

Posting(r) == r.op = "home" /\ r.method = "POST" /\ r.q # ""

\* C7 as claimed: a session file comes into existence only by a POST / with
\* a non-empty query or by a request with new_chat=1.
C7_CreatedOnlyByMessageOrNewChat ==
    [][ SessionFiles(files') \ SessionFiles(files) # {}
          => (last'.op = "home" /\ (last'.new \/ Posting(last'))) ]_vars

\* C7 amended: a session file comes into existence only by a POST / with a
\* non-empty query, by new_chat=1, or by a home request that finds no chat
\* id (no chat_id in the session and, for GET, none in the query string).
C7_CreatedOnlyByHomeWithoutChat ==
    [][ SessionFiles(files') \ SessionFiles(files) # {}
          => /\ last'.op = "home"
             /\ \/ last'.new
                \/ Posting(last')
                \/ session = NoId /\ (last'.method = "POST" \/ last'.qid = NoId)
      ]_vars

\* a plain GET / that made a session
C7_Witness ==
    /\ last.op = "home" /\ last.method = "GET" /\ ~last.new
    /\ last.qid = NoId /\ last.created = 1

\* the exchange stored when the tool raised
ToolErrorExchange(q) ==
    <<UserMsg(q), BotMsg(markdown_to_html(ToolError), Null)>>

ToolRaisedHandled ==
    /\ last'.status = 200
    /\ last'.toolCalls = 1
    /\ load_chat_history(files', PostChat)
         = load_chat_history(files, PostChat) \o ToolErrorExchange(last'.q)

---------------------------------------------------------------------------
(* Loaders *)

\* C9: load_chat_history and load_pinned_chats return [] when their file is
\* missing, unreadable or unparsable, and raise nothing.
Bad(fs, name) == ~Exists(fs, name) \/ fs[name].st # "ok"

C9_LoadersFallBack ==
    /\ last.op = "load_history" /\ Bad(files, safe_filename(last.id))
         => loaded = [raised |-> FALSE, val |-> <<>>]
    /\ last.op = "load_pinned" /\ Bad(files, PinnedName)
         => loaded = [raised |-> FALSE, val |-> <<>>]
    /\ last.op = "pin" => last.status # 500

---------------------------------------------------------------------------
(* Overlapping requests *)

Overlapped ==
    /\ \A t \in Threads : thr[t].pc = "done" /\ thr[t].saved
    /\ thr[1].chat_id = thr[2].chat_id
    /\ thr[1].hist = thr[2].hist

UserTexts(h) == { h[i].text : i \in { j \in DOMAIN h : h[j].role = "user" } }

\* C10: two POST / requests for one session that both load the history
\* before either saves it leave the exchange of only one of them stored.
C10_OverlapLosesOneExchange ==
    Overlapped =>
      LET h == load_chat_history(files, thr[1].chat_id)
      IN  /\ Len(h) = Len(thr[1].hist) + 2
          /\ Cardinality(UserTexts(h) \cap {"q1", "q2"}) = 1

\* both requests answered, one question stored
C10_Witness ==
    /\ Overlapped
    /\ UserTexts(load_chat_history(files, thr[1].chat_id)) = {"q2"}

---------------------------------------------------------------------------
(* Rendered page *)

\* h ends with the two messages of tail
EndsWith(h, tail) ==
    Len(h) >= Len(tail) /\ SubSeq(h, Len(h) - Len(tail) + 1, Len(h)) = tail

\* the bot message home stores for a plan when nothing raises afterwards
Reply(plan, moved) ==
    BotMsg(chatbot_response(plan).text, IF moved THEN MediaPath ELSE Null)

\* C11: a POST / with a non-empty query (nothing raising) appends the
\* question and its answer to the stored history of the chat that the
\* response renders and leaves in session["chat_id"], so the rendered history
\* ends with them, whatever chat_id, new_chat and the session hold.
C11_ExchangeGoesToRenderedChat ==
    [][ (Posting(last') /\ last'.io = "ok" /\ last'.status = 200)
          => /\ \E moved \in BOOLEAN :
                  /\ EndsWith(last'.history,
                              <<UserMsg(last'.q), Reply(last'.plan, moved)>>)
                  /\ EndsWith(load_chat_history(files', session'),
                              <<UserMsg(last'.q), Reply(last'.plan, moved)>>)
      ]_vars

\* C12: when moving the chart image or saving the history raises after the
\* user's message was appended, the page rendered for that request shows the
\* user's message followed by the bot message "Sorry, I encountered an
\* error."
C12_FailureShowsSorry ==
    [][ (Posting(last') /\ last'.io # "ok" /\ last'.status = 200)
          => EndsWith(last'.history, <<UserMsg(last'.q), Sorry>>) ]_vars

----------------------------------------------------------------------------
(* Frame *)

\* the stored history of session d is the same in fs1 and fs2
SameSession(fs1, fs2, d) ==
    /\ Exists(fs1, safe_filename(d)) = Exists(fs2, safe_filename(d))
    /\ load_chat_history(fs1, d) = load_chat_history(fs2, d)

\* C13: operations on one chat id leave every other chat untouched:
\* pin_chat(id) creates, changes or removes no session file, and
\* delete_chat(id) changes or removes the stored history of no session whose
\* id differs from id, and changes neither the pinned membership nor the
\* relative pinned order of any other id.
C13_OtherChatsUntouched ==
    [][ /\ last'.op = "pin"
          => /\ SessionFiles(files') = SessionFiles(files)
             /\ \A f \in SessionFiles(files) : files'[f] = files[f]
        /\ last'.op = "delete"
          => /\ \A d \in KnownIds \ {last'.id} : SameSession(files, files', d)
             /\ Without(PinnedList(files'), JStr(last'.id))
                  = Without(PinnedList(files), JStr(last'.id))
      ]_vars

\* C14: in every state reachable by home, pin_chat and delete_chat requests
\* every id in the persisted pinned list refers to an existing session file.
C14_NoDanglingPins ==
    \A i \in DOMAIN PinnedList(files) :
        safe_filename(PinnedList(files)[i].str) \in SessionFiles(files)

----------------------------------------------------------------------------
(* Pinning twice *)

\* C15 as stated: applying pin_chat(id) twice in a row restores the persisted
\* pinned list exactly, for every id and every prior pinned list.  Checked at
\* the first of the two calls: files is the store before it, files' the store
\* between the calls, pin_files(files', id) the store after the second.
C15_PinTwiceRestores ==
    [][ (last'.op = "pin" /\ last'.status = 302)
          => PinnedList(pin_files(files', last'.id)) = PinnedList(files) ]_vars

\* C15 amended: applying pin_chat(id) twice in a row restores the persisted
\* pinned list exactly when id was not pinned or was its first entry; when
\* id was pinned at a later position, the two calls leave id at the front
\* followed by the other ids in their prior order.
C15_PinTwiceRestoresOrMovesToFront ==
    [][ (last'.op = "pin" /\ last'.status = 302)
          => LET before == PinnedList(files)
                 after  == PinnedList(pin_files(files', last'.id))
                 me     == JStr(last'.id)
             IN  /\ (~In(me, before) \/ before[1] = me) => after = before
                 /\ In(me, before) => after = <<me>> \o Without(before, me)
      ]_vars

\* the first call has just pinned an id in front of one pinned before, and
\* the second call gives back the list as it was before the first
C15_Witness ==
    /\ last.op = "pin" /\ ~last.pinned /\ last.status = 302
    /\ Len(PinnedList(files)) = 2
    /\ PinnedList(pin_files(files, last.id)) = Tail(PinnedList(files))

====
